---- MODULE Spec2Model ----
(***************************************************************************)
(* website_status_checker/main.py: the polling loop of main(), the prober  *)
(* request_to_host, the classifier check_status, the transition notifier   *)
(* notify_status_change and the sender send_to_telegram.                   *)
(*                                                                         *)
(* The environment (the two environment variables, the contents of         *)
(* ./config.json, the outcome of every GET and of every POST, and the      *)
(* interrupt signal) is nondeterministic.                                  *)
(***************************************************************************)
EXTENDS Integers, Sequences, FiniteSets, TLC

\* ------------------------------------------------------------------ bounds
\* Number of passes of the while loop of main() that are explored.
MaxCycles == 3
\* Number of times the process is started again after it has ended.
MaxRestarts == 1

\* --------------------------------------------------------- program constants
\* http.HTTPStatus.OK
HTTP_OK == 200
\* config.get("interval", 300)
DEFAULT_INTERVAL == 300
\* The value Python's None stands for where a status code is expected: it is
\* equal to no status code.
None == -1
\* os.getenv of a variable that is not set (Python's None, which is falsy).
Unset == "<None>"
TELEGRAM_API_URL == "https://api.telegram.org/bot"

\* ------------------------------------------------------------- environment
\* The "urls" lists of the configuration files: none, one target, two targets,
\* and one target listed twice.
UrlLists ==
    {<<>>, <<"http://a.test">>, <<"http://a.test", "http://b.test">>,
     <<"http://a.test", "http://a.test">>}

\* Values of the TOKEN and CHAT_ID environment variables.
EnvValues == {Unset, "", "secret"}

\* Values of the optional "interval" field that are written in the file.
Intervals == {-1, 1}

\* The contents of ./config.json: the file may be missing, may not be JSON,
\* or holds an object with or without "urls" and "interval".
ConfigFiles ==
    {[file |-> f, has_urls |-> FALSE, urls |-> <<>>, has_interval |-> FALSE, interval |-> 0] :
        f \in {"missing", "invalid", "ok"}}
    \cup
    {[file |-> "ok", has_urls |-> TRUE, urls |-> us, has_interval |-> FALSE, interval |-> 0] :
        us \in UrlLists}
    \cup
    {[file |-> "ok", has_urls |-> TRUE, urls |-> us, has_interval |-> TRUE, interval |-> i] :
        us \in UrlLists, i \in Intervals}

\* What requests.get does: a completed response with a status code, a
\* requests.exceptions.RequestException, or another exception.
ProbeOutcomes ==
    {[kind |-> "response", status_code |-> c] : c \in {200, 201, 500}}
    \cup {[kind |-> k, status_code |-> None] : k \in {"RequestException", "Exception"}}

\* What requests.post does, likewise.
SendOutcomes ==
    {[kind |-> "response", status_code |-> c] : c \in {200, 400}}
    \cup {[kind |-> k, status_code |-> None] : k \in {"RequestException", "Exception"}}

\* No call of requests.post was made.
NoSend == [kind |-> "none", status_code |-> None]

Range(s) == {s[i] : i \in 1..Len(s)}


\* Every send is delivered: requests.post answers 200.
Delivered == {[kind |-> "response", status_code |-> HTTP_OK]}

\* ------------------------------------------------------------------- state
VARIABLES
    TELEGRAM_API_TOKEN, \* module global, os.getenv("TOKEN")
    TELEGRAM_CHAT_ID,   \* module global, os.getenv("CHAT_ID")
    config_file,        \* the contents of ./config.json
    pc,                 \* where the process is: "start", "load", "loop", "sleep", "exited"
    exit_status,        \* how the process ended ("" while it runs)
    config_loaded,      \* load_config has returned a configuration
    urls,               \* main's local urls
    interval,           \* main's local interval
    site_status,        \* main's local site_status: url -> bool
    idx,                \* position of the for loop in urls (1-based)
    cycle,              \* number of the current pass of the while loop (0 before the loop)
    net_calls,          \* the kinds of outbound request made so far ("GET", "POST")
    last,               \* what the most recent iteration of the for loop did
    prev,               \* url -> what the most recent iteration for the url did
    settled,            \* url -> the observation ("up", "down") whose transition was committed
                        \*        and that every observation since repeats ("none" otherwise)
    cycle_log,          \* the iterations of the for loop in the current pass
    history,            \* the classified observations of a recorded run, with their sends
    delivered_kind,     \* url -> the kind ("down", "up") of the message of the url that was
                        \*        delivered last by this process ("none" before any)
    still_down,         \* url -> the url was stored DOWN when the previous process ended and
                        \*        every observation of it by this process is unhealthy
    restarts,           \* number of times the process was started again
    was_down            \* url -> the url was stored DOWN when the previous process ended

vars == <<TELEGRAM_API_TOKEN, TELEGRAM_CHAT_ID, config_file, pc, exit_status,
          config_loaded, urls, interval, site_status, idx, cycle, net_calls,
          last, prev, settled, cycle_log, history, delivered_kind, still_down,
          restarts, was_down>>

\* What outlives a process: the environment variables, the configuration file
\* and the record of the previous process.
env == <<TELEGRAM_API_TOKEN, TELEGRAM_CHAT_ID, config_file, restarts, was_down>>

\* ----------------------------------------------------------------- helpers
\* Python's truth value of a str | None.
Truthy(v) == v # Unset /\ v # ""

\* The check with any() in place of all(): one value that is set is enough.
check_telegram_credentials_any ==
    Truthy(TELEGRAM_API_URL) \/ Truthy(TELEGRAM_API_TOKEN) \/ Truthy(TELEGRAM_CHAT_ID)

check_telegram_credentials ==
    Truthy(TELEGRAM_API_URL) /\ Truthy(TELEGRAM_API_TOKEN) /\ Truthy(TELEGRAM_CHAT_ID)

\* The startup reading the list with config.get("urls", []) and an unreadable
\* file as an empty configuration.
load_config_lenient(f) ==
    IF f.file # "ok" \/ ~f.has_urls THEN [raised |-> "", urls |-> <<>>, interval |-> DEFAULT_INTERVAL]
    ELSE [raised |-> "", urls |-> f.urls,
          interval |-> IF f.has_interval THEN f.interval ELSE DEFAULT_INTERVAL]

\* load_config followed by main's reads of the dictionary: the exception that
\* ends the startup ("" when there is none), and the values of urls and
\* interval.
load_config(f) ==
    IF f.file = "missing" THEN [raised |-> "FileNotFoundError", urls |-> <<>>, interval |-> 0]
    ELSE IF f.file = "invalid" THEN [raised |-> "JSONDecodeError", urls |-> <<>>, interval |-> 0]
    ELSE IF ~f.has_urls THEN [raised |-> "KeyError", urls |-> <<>>, interval |-> 0]
    ELSE [raised |-> "", urls |-> f.urls,
          interval |-> IF f.has_interval THEN f.interval ELSE DEFAULT_INTERVAL]

\* The dictionary built with every target down.
InitSiteStatus_down(us) == [u \in Range(us) |-> FALSE]

\* The dictionary restored from what the previous process had stored.
InitSiteStatus_restored(us) == [u \in Range(us) |-> ~(u \in DOMAIN was_down /\ was_down[u])]

\* site_status = {url: True for url in urls}
InitSiteStatus(us) == [u \in Range(us) |-> TRUE]

\* send_to_telegram(message): True iff the service answers 200; a
\* RequestException is caught and gives False; another exception is raised.
send_to_telegram(resp) ==
    [raised |-> resp.kind = "Exception",
     ok     |-> resp.kind = "response" /\ resp.status_code = HTTP_OK]

\* The classifier accepting every 2xx code.
check_status_2xx(status) ==
    IF status >= 200 /\ status < 300 THEN TRUE ELSE FALSE

check_status(status) ==
    IF status = HTTP_OK THEN TRUE ELSE FALSE

\* The prober letting a transport failure propagate to its caller.
request_to_host_propagates(probe) ==
    [raised |-> probe.kind # "response",
     status |-> IF probe.kind = "response" THEN probe.status_code ELSE None]

\* request_to_host(url): the status code of a completed response, None after a
\* RequestException; another exception is raised.
request_to_host(probe) ==
    [raised |-> probe.kind = "Exception",
     status |-> IF probe.kind = "response" THEN probe.status_code ELSE None]

DownText(url) == "Resource is down! URL: " \o url
UpText(url) == "Resource is up! URL: " \o url

\* The notifier storing the new state before it knows the outcome of the send.
notify_commit_first(url, is_ok, ss, resp) ==
    IF is_ok # ss[url]
    THEN [msgs |-> <<IF is_ok THEN UpText(url) ELSE DownText(url)>>,
          site_status |-> [ss EXCEPT ![url] = is_ok],
          raised |-> send_to_telegram(resp).raised]
    ELSE [msgs |-> <<>>, site_status |-> ss, raised |-> FALSE]

\* The notifier without its elif branch: recoveries are not reported.
notify_down_only(url, is_ok, ss, resp) ==
    IF ~is_ok /\ ss[url]
    THEN [msgs |-> <<DownText(url)>>,
          site_status |-> IF ~send_to_telegram(resp).raised /\ send_to_telegram(resp).ok
                          THEN [ss EXCEPT ![url] = is_ok] ELSE ss,
          raised |-> send_to_telegram(resp).raised]
    ELSE [msgs |-> <<>>, site_status |-> ss, raised |-> FALSE]

\* The notifier that does not look at the stored state: every observation is
\* reported.
notify_every_observation(url, is_ok, ss, resp) ==
    [msgs |-> <<IF is_ok THEN UpText(url) ELSE DownText(url)>>,
     site_status |-> IF ~send_to_telegram(resp).raised /\ send_to_telegram(resp).ok
                     THEN [ss EXCEPT ![url] = is_ok] ELSE ss,
     raised |-> send_to_telegram(resp).raised]

\* The notifier with the two texts exchanged.
notify_swapped_texts(url, is_ok, ss, resp) ==
    IF is_ok # ss[url]
    THEN [msgs |-> <<IF is_ok THEN DownText(url) ELSE UpText(url)>>,
          site_status |-> IF ~send_to_telegram(resp).raised /\ send_to_telegram(resp).ok
                          THEN [ss EXCEPT ![url] = is_ok] ELSE ss,
          raised |-> send_to_telegram(resp).raised]
    ELSE [msgs |-> <<>>, site_status |-> ss, raised |-> FALSE]

\* The notifier sending a message a second time when the first send fails.
notify_retry_at_once(url, is_ok, ss, resp) ==
    IF is_ok # ss[url]
    THEN LET text == IF is_ok THEN UpText(url) ELSE DownText(url)
             ok == ~send_to_telegram(resp).raised /\ send_to_telegram(resp).ok
         IN  [msgs |-> IF ok THEN <<text>> ELSE <<text, text>>,
              site_status |-> IF ok THEN [ss EXCEPT ![url] = is_ok] ELSE ss,
              raised |-> send_to_telegram(resp).raised]
    ELSE [msgs |-> <<>>, site_status |-> ss, raised |-> FALSE]

\* The notifier that never stores the new state.
notify_never_commits(url, is_ok, ss, resp) ==
    IF is_ok # ss[url]
    THEN [msgs |-> <<IF is_ok THEN UpText(url) ELSE DownText(url)>>,
          site_status |-> ss,
          raised |-> send_to_telegram(resp).raised]
    ELSE [msgs |-> <<>>, site_status |-> ss, raised |-> FALSE]

\* The notifier storing the new state under the message instead of the url.
notify_wrong_key(url, is_ok, ss, resp) ==
    IF is_ok # ss[url]
    THEN LET text == IF is_ok THEN UpText(url) ELSE DownText(url)
         IN  [msgs |-> <<text>>,
              site_status |-> IF ~send_to_telegram(resp).raised /\ send_to_telegram(resp).ok
                              THEN [k \in DOMAIN ss \cup {text} |->
                                       IF k = text THEN is_ok ELSE ss[k]]
                              ELSE ss,
              raised |-> send_to_telegram(resp).raised]
    ELSE [msgs |-> <<>>, site_status |-> ss, raised |-> FALSE]

\* The notifier storing the new state for every url after a delivery.
notify_writes_all(url, is_ok, ss, resp) ==
    IF is_ok # ss[url]
    THEN [msgs |-> <<IF is_ok THEN UpText(url) ELSE DownText(url)>>,
          site_status |-> IF ~send_to_telegram(resp).raised /\ send_to_telegram(resp).ok
                          THEN [k \in DOMAIN ss |-> is_ok]
                          ELSE ss,
          raised |-> send_to_telegram(resp).raised]
    ELSE [msgs |-> <<>>, site_status |-> ss, raised |-> FALSE]

\* notify_status_change(url, is_ok, site_status), with resp what requests.post
\* does if it is called: the messages passed to send_to_telegram, the
\* dictionary afterwards, and whether an exception leaves the function.
notify_status_change(url, is_ok, ss, resp) ==
    IF ~is_ok /\ ss[url]
    THEN [msgs |-> <<DownText(url)>>,
          site_status |-> IF send_to_telegram(resp).raised THEN ss
                          ELSE IF send_to_telegram(resp).ok THEN [ss EXCEPT ![url] = is_ok]
                          ELSE ss,
          raised |-> send_to_telegram(resp).raised]
    ELSE IF is_ok /\ ~ss[url]
    THEN [msgs |-> <<UpText(url)>>,
          site_status |-> IF send_to_telegram(resp).raised THEN ss
                          ELSE IF send_to_telegram(resp).ok THEN [ss EXCEPT ![url] = is_ok]
                          ELSE ss,
          raised |-> send_to_telegram(resp).raised]
    ELSE [msgs |-> <<>>, site_status |-> ss, raised |-> FALSE]

\* The try/except put around the whole for loop: an exception ends the pass.
next_target_abort(i, raised) == IF raised THEN Len(urls) + 1 ELSE i + 1

\* The for loop's step to the next url: the except clause of main logs the
\* exception and the loop goes on.
next_target(i, raised) == i + 1

\* time.sleep(secs) raises ValueError for a negative argument.
sleep_raises(secs) == secs < 0

\* No iteration for the url yet: its stored state is the initial True.
NoPrev == [kind |-> "none", is_ok |-> TRUE, sent |-> FALSE, failed |-> FALSE]

\* An iteration in which an exception left request_to_host: no observation.
Excepted == [kind |-> "exception", is_ok |-> TRUE, sent |-> FALSE, failed |-> FALSE]

Obs(is_ok) == IF is_ok THEN "up" ELSE "down"

NoStep == [kind |-> "none", url |-> "", stored |-> TRUE, status |-> None,
           is_ok |-> FALSE, msgs |-> <<>>, resp |-> NoSend, delivered |-> FALSE,
           prev |-> NoPrev, settled |-> "none", delivered_before |-> "none"]

EmptyMap == [u \in {} |-> TRUE]

\* -------------------------------------------------------------------- Init
\* The process starts: nothing of main() has run.
Started ==
    /\ pc = "start"
    /\ exit_status = ""
    /\ config_loaded = FALSE
    /\ urls = <<>>
    /\ interval = 0
    /\ site_status = EmptyMap
    /\ idx = 0
    /\ cycle = 0
    /\ net_calls = {}
    /\ last = NoStep
    /\ prev = EmptyMap
    /\ settled = EmptyMap
    /\ cycle_log = <<>>
    /\ history = <<>>
    /\ delivered_kind = EmptyMap
    /\ still_down = EmptyMap

\* The first process: none ended before it.
FirstRun ==
    /\ restarts = 0
    /\ was_down = EmptyMap

Init ==
    /\ TELEGRAM_API_TOKEN \in EnvValues
    /\ TELEGRAM_CHAT_ID \in EnvValues
    /\ config_file \in ConfigFiles
    /\ FirstRun
    /\ Started

\* ----------------------------------------------------------------- actions
\* main, lines 156-158: the credentials check.
CheckCredentials ==
    /\ pc = "start"
    /\ IF check_telegram_credentials
       THEN pc' = "load" /\ exit_status' = exit_status
       ELSE pc' = "exited" /\ exit_status' = "Credentials not found"
    /\ UNCHANGED <<env, config_loaded, urls, interval, site_status, idx, cycle,
                   net_calls, last, prev, settled, cycle_log, history, delivered_kind,
                   still_down>>

\* main, lines 160-163: the configuration is loaded and the state is built.
LoadConfig ==
    /\ pc = "load"
    /\ LET c == load_config(config_file)
       IN  IF c.raised # ""
           THEN /\ pc' = "exited"
                /\ exit_status' = c.raised
                /\ UNCHANGED <<config_loaded, urls, interval, site_status, idx, cycle,
                               prev, settled, delivered_kind, still_down>>
           ELSE /\ pc' = "loop"
                /\ exit_status' = exit_status
                /\ config_loaded' = TRUE
                /\ urls' = c.urls
                /\ interval' = c.interval
                /\ site_status' = InitSiteStatus(c.urls)
                /\ idx' = 1
                /\ cycle' = 1
                /\ prev' = [u \in Range(c.urls) |-> NoPrev]
                /\ settled' = [u \in Range(c.urls) |-> "none"]
                /\ delivered_kind' = [u \in Range(c.urls) |-> "none"]
                /\ still_down' = [u \in Range(c.urls) |->
                                     u \in DOMAIN was_down /\ was_down[u]]
    /\ UNCHANGED <<env, net_calls, last, cycle_log, history>>

\* main, lines 166-172: one iteration of the for loop, with what requests.get
\* does (one of ProbeOutcomes) and what requests.post does if it is called (one
\* of sends); the iteration is appended to history when recorded.
Iteration(sends, recorded) ==
    /\ pc = "loop"
    /\ idx <= Len(urls)
    /\ \E probe \in ProbeOutcomes, resp \in sends :
        LET url == urls[idx]
            r == request_to_host(probe)
            is_ok == check_status(r.status)
            n == notify_status_change(url, is_ok, site_status, resp)
            sent == n.msgs # <<>>
            ok == sent /\ ~send_to_telegram(resp).raised /\ send_to_telegram(resp).ok
            step == [kind |-> IF r.raised THEN "exception" ELSE "fed",
                     url |-> url,
                     stored |-> site_status[url],
                     status |-> r.status,
                     is_ok |-> IF r.raised THEN FALSE ELSE is_ok,
                     msgs |-> IF r.raised THEN <<>> ELSE n.msgs,
                     resp |-> IF r.raised \/ ~sent THEN NoSend ELSE resp,
                     delivered |-> ~r.raised /\ ok,
                     prev |-> prev[url],
                     settled |-> settled[url],
                     delivered_before |-> delivered_kind[url]]
        IN  /\ last' = step
            /\ cycle_log' = Append(cycle_log, [url |-> url, probe |-> probe.kind,
                                               fed |-> ~r.raised,
                                               attempts |-> IF r.raised THEN 0
                                                            ELSE Len(n.msgs)])
            /\ idx' = next_target(idx, r.raised \/ n.raised)
            /\ IF r.raised
               THEN /\ net_calls' = net_calls \cup {"GET"}
                    /\ prev' = [prev EXCEPT ![url] = Excepted]
                    /\ UNCHANGED <<site_status, settled, history, delivered_kind,
                                   still_down>>
               ELSE /\ net_calls' = net_calls \cup {"GET"}
                                       \cup (IF sent THEN {"POST"} ELSE {})
                    /\ site_status' = n.site_status
                    /\ prev' = [prev EXCEPT ![url] =
                                   [kind |-> "fed", is_ok |-> is_ok, sent |-> sent,
                                    failed |-> sent /\ ~ok]]
                    /\ settled' = [settled EXCEPT ![url] =
                                      IF ok THEN Obs(is_ok)
                                      ELSE IF settled[url] = Obs(is_ok) THEN settled[url]
                                      ELSE "none"]
                    /\ delivered_kind' = [delivered_kind EXCEPT ![url] =
                                             IF ~ok THEN delivered_kind[url]
                                             ELSE IF n.msgs[1] = DownText(url) THEN "down"
                                             ELSE "up"]
                    /\ still_down' = [still_down EXCEPT ![url] = still_down[url] /\ ~is_ok]
                    /\ history' = IF recorded
                                  THEN Append(history, [cycle |-> cycle, url |-> url,
                                                        status |-> r.status,
                                                        is_ok |-> is_ok, msgs |-> n.msgs])
                                  ELSE history
    /\ UNCHANGED <<env, pc, exit_status, config_loaded, urls, interval, cycle>>

ProcessTarget == Iteration(SendOutcomes, FALSE)

\* main, line 173: time.sleep(interval) is called after the for loop.
Sleep ==
    /\ pc = "loop"
    /\ idx > Len(urls)
    /\ IF sleep_raises(interval)
       THEN pc' = "exited" /\ exit_status' = "ValueError"
       ELSE pc' = "sleep" /\ exit_status' = exit_status
    /\ UNCHANGED <<env, config_loaded, urls, interval, site_status, idx, cycle,
                   net_calls, last, prev, settled, cycle_log, history, delivered_kind,
                   still_down>>

\* main, lines 165-166: time.sleep returns and the next pass begins.
NextCycle ==
    /\ pc = "sleep"
    /\ cycle < MaxCycles
    /\ pc' = "loop"
    /\ idx' = 1
    /\ cycle' = cycle + 1
    /\ cycle_log' = <<>>
    /\ UNCHANGED <<env, exit_status, config_loaded, urls, interval, site_status,
                   net_calls, last, prev, settled, history, delivered_kind, still_down>>

\* lines 177-181: KeyboardInterrupt anywhere in main() ends the process with
\* SystemExit(0).
Interrupt ==
    /\ pc \in {"start", "load", "loop", "sleep"}
    /\ pc' = "exited"
    /\ exit_status' = "0"
    /\ UNCHANGED <<env, config_loaded, urls, interval, site_status, idx, cycle,
                   net_calls, last, prev, settled, cycle_log, history, delivered_kind,
                   still_down>>

\* lines 176-178: the script is run again after the process has ended. The new
\* process has none of the state of the previous one.
Restart ==
    /\ pc = "exited"
    /\ restarts < MaxRestarts
    /\ restarts' = restarts + 1
    /\ was_down' = [u \in DOMAIN site_status |-> ~site_status[u]]
    /\ pc' = "start"
    /\ exit_status' = ""
    /\ config_loaded' = FALSE
    /\ urls' = <<>>
    /\ interval' = 0
    /\ site_status' = EmptyMap
    /\ idx' = 0
    /\ cycle' = 0
    /\ net_calls' = {}
    /\ last' = NoStep
    /\ prev' = EmptyMap
    /\ settled' = EmptyMap
    /\ cycle_log' = <<>>
    /\ history' = <<>>
    /\ delivered_kind' = EmptyMap
    /\ still_down' = EmptyMap
    /\ UNCHANGED <<TELEGRAM_API_TOKEN, TELEGRAM_CHAT_ID, config_file>>

Next ==
    \/ CheckCredentials
    \/ LoadConfig
    \/ ProcessTarget
    \/ Sleep
    \/ NextCycle
    \/ Interrupt
    \/ Restart

Spec == Init /\ [][Next]_vars

\* ------------------------------------------------- the recorded single target
\* main() with one configured target and a messaging service that answers 200
\* to every send, every classified observation being recorded in history.
InitE2E ==
    /\ TELEGRAM_API_TOKEN \in EnvValues
    /\ TELEGRAM_CHAT_ID \in EnvValues
    /\ config_file \in {c \in ConfigFiles : c.has_urls /\ Len(c.urls) = 1}
    /\ FirstRun
    /\ Started

RecordedTarget == Iteration(Delivered, TRUE)

NextE2E ==
    \/ CheckCredentials
    \/ LoadConfig
    \/ RecordedTarget
    \/ Sleep
    \/ NextCycle
    \/ Interrupt

SpecE2E == InitE2E /\ [][NextE2E]_vars

\* ------------------------------------------------------------- check_status
\* check_status applied to one argument: a status code or None.
StatusArguments == (100..599) \cup {None}

InitCheckStatus ==
    /\ TELEGRAM_API_TOKEN = "secret"
    /\ TELEGRAM_CHAT_ID = "secret"
    /\ config_file \in {c \in ConfigFiles : c.file = "missing"}
    /\ pc = "check_status"
    /\ exit_status = ""
    /\ config_loaded = FALSE
    /\ urls = <<>>
    /\ interval = 0
    /\ site_status = EmptyMap
    /\ idx = 0
    /\ cycle = 0
    /\ net_calls = {}
    /\ \E status \in StatusArguments : last = [NoStep EXCEPT !.status = status]
    /\ prev = EmptyMap
    /\ settled = EmptyMap
    /\ cycle_log = <<>>
    /\ history = <<>>
    /\ delivered_kind = EmptyMap
    /\ still_down = EmptyMap
    /\ FirstRun

CallCheckStatus ==
    /\ pc = "check_status"
    /\ pc' = "classified"
    /\ last' = [last EXCEPT !.kind = "classified", !.is_ok = check_status(last.status)]
    /\ UNCHANGED <<env, exit_status, config_loaded, urls, interval, site_status, idx,
                   cycle, net_calls, prev, settled, cycle_log, history, delivered_kind,
                   still_down>>

SpecCheckStatus == InitCheckStatus /\ [][CallCheckStatus]_vars

\* ------------------------------------------------------------------- claims
\* The messaging service answered 200 to the send of the last iteration.
SendSucceeded == last.resp.kind = "response" /\ last.resp.status_code = 200

\* A send was made in the last iteration and was not answered 200.
SendFailed == last.resp.kind # "none" /\ ~SendSucceeded

\* The number of places of urls that hold url.
Occurrences(url) == Cardinality({i \in 1..Len(urls) : urls[i] = url})

\* C1: when the stored state of a target is UP and the observation is
\* unhealthy, notify_status_change makes exactly one notification attempt, with
\* the "down" message of that target; the stored state becomes DOWN if the send
\* succeeds and stays UP if it fails.
C1_DownTransition ==
    (last.kind = "fed" /\ last.stored /\ ~last.is_ok) =>
        /\ last.msgs = <<"Resource is down! URL: " \o last.url>>
        /\ last.resp.kind # "none"
        /\ SendSucceeded => site_status[last.url] = FALSE
        /\ SendFailed => site_status[last.url] = TRUE

\* One target is DOWN after a delivered "down" message, and the "down" message
\* of another target has just failed, leaving it UP.
C1_Witness ==
    /\ last.kind = "fed" /\ last.stored /\ ~last.is_ok
    /\ last.resp.kind = "RequestException"
    /\ site_status[last.url]
    /\ \E u \in DOMAIN site_status : ~site_status[u] /\ prev[u].kind = "fed" /\ ~prev[u].failed

\* C2: when the stored state of a target is DOWN and the observation is
\* healthy, notify_status_change makes exactly one notification attempt, with
\* the "up" message of that target; the stored state becomes UP if the send
\* succeeds and stays DOWN if it fails.
C2_UpTransition ==
    (last.kind = "fed" /\ ~last.stored /\ last.is_ok) =>
        /\ last.msgs = <<"Resource is up! URL: " \o last.url>>
        /\ last.resp.kind # "none"
        /\ SendSucceeded => site_status[last.url] = TRUE
        /\ SendFailed => site_status[last.url] = FALSE

\* A target that was DOWN is observed healthy, the "up" message is delivered
\* and the target is UP again.
C2_Witness ==
    /\ last.kind = "fed" /\ ~last.stored /\ last.is_ok
    /\ SendSucceeded
    /\ site_status[last.url]

\* C3: when the observation of a target equals its stored state no
\* notification attempt is made and the stored state is unchanged; and once a
\* transition has been committed by a successful send, an observation that
\* repeats the committed one makes no attempt, as long as no opposite
\* observation came in between.
C3_NoTransitionNoSend ==
    /\ (last.kind = "fed" /\ last.is_ok = last.stored) =>
            /\ last.msgs = <<>>
            /\ last.resp = NoSend
            /\ site_status[last.url] = last.stored
    /\ (last.kind = "fed" /\ last.settled = Obs(last.is_ok)) =>
            /\ last.msgs = <<>>
            /\ last.resp = NoSend
            /\ site_status[last.url] = last.is_ok

\* A "down" transition was committed and the target is observed unhealthy
\* again, two passes later: nothing is sent.
C3_Witness ==
    /\ last.kind = "fed" /\ last.settled = "down" /\ ~last.is_ok
    /\ last.prev.kind = "fed" /\ ~last.prev.is_ok /\ ~last.prev.failed
    /\ last.msgs = <<>>
    /\ ~site_status[last.url]
    /\ cycle = 3 /\ Occurrences(last.url) = 1

\* C4, as claimed: a notification is emitted for a target in a cycle exactly
\* when the reachability observed in that cycle differs from the one observed
\* in the previous cycle (UP before the first cycle), whatever the sends do.
C4_AsClaimed ==
    (/\ last.kind = "fed"
     /\ Occurrences(last.url) = 1
     /\ last.prev.kind \in {"none", "fed"}) =>
        (last.msgs # <<>> <=> last.is_ok # last.prev.is_ok)

\* C4, amended: a notification attempt is made for a target in an iteration
\* exactly when the observation differs from the stored state of the target
\* (the state committed by the last delivered notification, UP initially); an
\* observation that differs from the previous one makes no attempt when the
\* stored state already equals it, and one that repeats the previous one makes
\* an attempt when the previous send failed.
C4_AttemptIffDiffersFromStored ==
    (last.kind = "fed") =>
        /\ last.msgs # <<>> <=> last.is_ok # last.stored
        /\ last.msgs # <<>> <=> last.resp.kind # "none"
        /\ last.msgs # <<>> => last.msgs = <<IF last.is_ok THEN UpText(last.url)
                                                           ELSE DownText(last.url)>>

\* The observation repeats the one of the previous cycle, whose send failed:
\* an attempt is made although the reachability did not change.
C4_Witness ==
    /\ last.kind = "fed" /\ Occurrences(last.url) = 1
    /\ last.prev.kind = "fed" /\ last.prev.failed
    /\ last.is_ok = last.prev.is_ok
    /\ last.is_ok # last.stored
    /\ last.msgs # <<>>

\* C5, as claimed: whenever a notification attempt for a target fails in a
\* cycle, an attempt for that target is made again in the next cycle.
C5_AsClaimed ==
    (/\ last.kind \in {"fed", "exception"}
     /\ Occurrences(last.url) = 1
     /\ last.prev.failed) =>
        last.msgs # <<>>

\* C5, amended: a failed attempt leaves the stored state as it was, and the
\* next iteration that classifies the target makes an attempt again exactly
\* when its observation repeats the one whose send failed; an observation back
\* at the stored state makes no attempt.
C5_RetryWhileObservationPersists ==
    (last.kind = "fed" /\ last.prev.failed) =>
        /\ last.stored # last.prev.is_ok
        /\ last.is_ok = last.prev.is_ok => last.msgs # <<>>
        /\ last.is_ok # last.prev.is_ok =>
              last.msgs = <<>> /\ site_status[last.url] = last.stored

\* The "down" message of a target failed in the previous cycle, the target is
\* observed unhealthy again and the "down" message is sent again.
C5_Witness ==
    /\ last.kind = "fed" /\ Occurrences(last.url) = 1
    /\ last.prev.failed /\ ~last.prev.is_ok /\ ~last.is_ok
    /\ last.msgs = <<DownText(last.url)>>
    /\ cycle >= 2

RECURSIVE Notifications(_)
\* The messages sent in the iterations of a history, in order.
Notifications(h) ==
    IF h = <<>> THEN <<>> ELSE Head(h).msgs \o Notifications(Tail(h))

RECURSIVE Flips(_, _)
\* The messages of the boolean flips of the observations of a history, the
\* first being compared with before.
Flips(h, before) ==
    IF h = <<>> THEN <<>>
    ELSE (IF Head(h).is_ok = before THEN <<>>
          ELSE IF Head(h).is_ok THEN <<"Resource is up! URL: " \o Head(h).url>>
          ELSE <<"Resource is down! URL: " \o Head(h).url>>)
         \o Flips(Tail(h), Head(h).is_ok)

\* The status codes observed in a history, in order.
Statuses(h) == [i \in 1..Len(h) |-> h[i].status]

\* The messages sent in each iteration of a history.
Sent(h) == [i \in 1..Len(h) |-> h[i].msgs]

\* C6: with one target and every send succeeding, the notifications sent from
\* process start are the boolean flips of the observations relative to UP; a
\* cycle sends a notification iff its observation differs from the one of the
\* previous cycle; observations 500, 200, 200 send "down", then "up", then
\* nothing.
C6_NotificationsAreFlips ==
    /\ Notifications(history) = Flips(history, TRUE)
    /\ \A i \in 1..Len(history) :
          /\ (i = 1 /\ history[i].cycle = 1) =>
                (history[i].msgs # <<>> <=> ~history[i].is_ok)
          /\ (i > 1 /\ history[i].cycle = history[i - 1].cycle + 1) =>
                (history[i].msgs # <<>> <=> history[i].is_ok # history[i - 1].is_ok)
    /\ Statuses(history) = <<500, 200, 200>> =>
          Sent(history) = << <<"Resource is down! URL: http://a.test">>,
                             <<"Resource is up! URL: http://a.test">>,
                             <<>> >>

\* The end-to-end run: "interval": 1, observations 500, 200, 200 in the first
\* three cycles, one "down" and one "up" message sent, the target UP again.
C6_Witness ==
    /\ urls = <<"http://a.test">> /\ interval = 1
    /\ Statuses(history) = <<500, 200, 200>>
    /\ [i \in 1..Len(history) |-> history[i].cycle] = <<1, 2, 3>>
    /\ Notifications(history) = <<"Resource is down! URL: http://a.test",
                                  "Resource is up! URL: http://a.test">>
    /\ site_status["http://a.test"]
    /\ pc = "sleep"

\* C7: if one of the credential values is empty or unset at startup, main
\* ends with SystemExit("Credentials not found") before the configuration is
\* loaded, before the loop is entered and before any GET or POST is made.
C7_NoCredentialsNoNetwork ==
    (\/ TELEGRAM_API_URL \in {Unset, ""}
     \/ TELEGRAM_API_TOKEN \in {Unset, ""}
     \/ TELEGRAM_CHAT_ID \in {Unset, ""}) =>
        /\ pc \in {"start", "exited"}
        /\ pc = "exited" => exit_status \in {"Credentials not found", "0"}
        /\ ~config_loaded /\ urls = <<>> /\ site_status = EmptyMap
        /\ cycle = 0 /\ cycle_log = <<>> /\ last.kind = "none"
        /\ net_calls = {}

\* The token is set and the chat id is unset: main has ended with
\* SystemExit("Credentials not found"), nothing loaded, nothing requested.
C7_Witness ==
    /\ TELEGRAM_API_TOKEN = "secret" /\ TELEGRAM_CHAT_ID = Unset
    /\ config_file.file = "ok" /\ config_file.urls # <<>>
    /\ pc = "exited" /\ exit_status = "Credentials not found"
    /\ net_calls = {} /\ ~config_loaded

\* C8: once site_status is built its keys are exactly the configured targets,
\* every value is a boolean, every value is True when the loop is entered, and
\* no iteration adds or removes a key.
C8_KeysAreTargets ==
    config_loaded =>
        /\ urls = config_file.urls
        /\ DOMAIN site_status = {urls[i] : i \in 1..Len(urls)}
        /\ \A u \in DOMAIN site_status : site_status[u] \in BOOLEAN
        /\ (pc = "loop" /\ cycle = 1 /\ idx = 1) =>
              \A u \in DOMAIN site_status : site_status[u] = TRUE

\* Two targets in the third pass, one of them DOWN after a delivered message,
\* the probe of the last iteration having raised an exception.
C8_Witness ==
    /\ config_loaded /\ cycle = 3
    /\ Cardinality(DOMAIN site_status) = 2
    /\ \E u \in DOMAIN site_status : ~site_status[u]
    /\ last.kind = "exception"

\* C9, as claimed: in every pass every configured target is probed, classified
\* and fed to the notifier exactly once, in configured order, before the sleep.
C9_AsClaimed ==
    pc = "sleep" =>
        /\ Len(cycle_log) = Len(urls)
        /\ \A i \in 1..Len(cycle_log) : cycle_log[i].url = urls[i] /\ cycle_log[i].fed

\* C9, amended: in every pass an iteration is run for every configured target
\* exactly once, in configured order, and only then does the loop sleep; the
\* target is classified and fed to the notifier in its iteration unless an
\* exception other than a RequestException leaves the probe; no probe failure,
\* failed send or exception ends the pass or skips a following target.
C9_EveryTargetOncePerPass ==
    /\ pc \in {"loop", "sleep"} =>
          /\ Len(cycle_log) = idx - 1
          /\ idx <= Len(urls) + 1
          /\ \A i \in 1..Len(cycle_log) :
                /\ cycle_log[i].url = urls[i]
                /\ cycle_log[i].fed <=> cycle_log[i].probe # "Exception"
    /\ pc = "sleep" => Len(cycle_log) = Len(urls)

\* The loop sleeps after a pass over two targets in which an exception left
\* the probe of the first target and the second target was fed to the notifier.
C9_Witness ==
    /\ pc = "sleep" /\ Len(urls) = 2
    /\ ~cycle_log[1].fed /\ cycle_log[1].probe = "Exception"
    /\ cycle_log[2].fed /\ cycle_log[2].url = urls[2]
    /\ last.kind = "fed" /\ last.resp.kind = "Exception"

\* C10: check_status returns True iff its argument is exactly 200: False for
\* every other status code and for None.
C10_OkIff200 ==
    pc = "classified" =>
        /\ last.is_ok <=> last.status = 200
        /\ last.status = None => ~last.is_ok
        /\ last.status \in (100..199) \cup (201..599) => ~last.is_ok

\* check_status has been applied to 204 and has returned False.
C10_Witness ==
    pc = "classified" /\ last.status = 204 /\ ~last.is_ok

\* The exception that ends the startup for a configuration file that is
\* missing, is not JSON or has no "urls" ("" for a file that loads).
StartupError(f) ==
    IF f.file = "missing" THEN "FileNotFoundError"
    ELSE IF f.file = "invalid" THEN "JSONDecodeError"
    ELSE IF ~f.has_urls THEN "KeyError"
    ELSE ""

\* C11: if the configuration file is missing, is not valid JSON or has no
\* "urls" key, the process ends with an error during startup: the loop is never
\* entered, no GET and no POST is made, and the ended process takes no further
\* step (no retry).
C11_BadConfigEndsStartup ==
    StartupError(config_file) # "" =>
        /\ pc \in {"start", "load", "exited"}
        /\ ~config_loaded /\ cycle = 0 /\ cycle_log = <<>> /\ last.kind = "none"
        /\ site_status = EmptyMap
        /\ net_calls = {}
        /\ pc = "exited" =>
              /\ exit_status \in {StartupError(config_file), "Credentials not found", "0"}
              /\ check_telegram_credentials =>
                    exit_status \in {StartupError(config_file), "0"}
              /\ ~ENABLED (CheckCredentials \/ LoadConfig \/ ProcessTarget \/ Sleep
                              \/ NextCycle \/ Interrupt)

\* The credentials are set, the file is JSON without "urls": main has ended
\* with KeyError before any request.
C11_Witness ==
    /\ check_telegram_credentials
    /\ config_file.file = "ok" /\ ~config_file.has_urls
    /\ pc = "exited" /\ exit_status = "KeyError"
    /\ net_calls = {} /\ cycle = 0

RECURSIVE AttemptsInPass(_, _)
\* The number of sends made for url in the iterations log of a pass.
AttemptsInPass(log, url) ==
    IF log = <<>> THEN 0
    ELSE (IF Head(log).url = url THEN Head(log).attempts ELSE 0)
         + AttemptsInPass(Tail(log), url)

\* C12, as claimed: whatever the configured list, a url listed twice included,
\* at most one send is made per url per pass.
C12_AsClaimed ==
    \A u \in Range(urls) : AttemptsInPass(cycle_log, u) <= 1

\* C12, amended: at most one send is made per entry of the configured list per
\* pass, so a url gets at most as many sends per pass as the list names it: at
\* most one when it is listed once.
C12_OneAttemptPerEntry ==
    /\ \A i \in 1..Len(cycle_log) : cycle_log[i].attempts <= 1
    /\ last.kind # "none" => Len(last.msgs) <= 1
    /\ \A u \in Range(urls) :
          /\ AttemptsInPass(cycle_log, u) <= Occurrences(u)
          /\ Occurrences(u) = 1 => AttemptsInPass(cycle_log, u) <= 1

\* A url is listed twice: its "down" message failed in the first iteration of
\* the pass and is sent again in the second iteration of the same pass.
C12_Witness ==
    /\ urls = <<"http://a.test", "http://a.test">>
    /\ Len(cycle_log) = 2
    /\ cycle_log[1].attempts = 1 /\ cycle_log[2].attempts = 1
    /\ last.prev.failed /\ ~last.prev.is_ok
    /\ last.msgs = <<DownText("http://a.test")>>
    /\ AttemptsInPass(cycle_log, "http://a.test") = 2

\* C13, as claimed: after a restart, a target that was DOWN when the previous
\* process ended and is observed unhealthy ever since gets no alert.
C13_AsClaimed ==
    (last.kind = "fed" /\ still_down[last.url]) => last.msgs = <<>>

\* C13, amended: after a restart the stored state is UP again, so a target that
\* was DOWN when the previous process ended and is observed unhealthy ever
\* since gets a "down" alert attempt in every iteration until one is delivered,
\* and none after that.
C13_RestartAlertsAgain ==
    /\ (restarts > 0 /\ pc = "loop" /\ cycle = 1 /\ idx = 1) =>
          \A u \in DOMAIN site_status : site_status[u]
    /\ (last.kind = "fed" /\ still_down[last.url]) =>
          /\ last.delivered_before = "none" =>
                last.stored /\ last.msgs = <<DownText(last.url)>>
          /\ last.delivered_before # "none" =>
                ~last.stored /\ last.msgs = <<>>

\* The target was DOWN when the previous process ended; the first probe of the
\* new process finds it unhealthy and a "down" message is delivered again.
C13_Witness ==
    /\ restarts = 1
    /\ last.kind = "fed" /\ still_down[last.url] /\ was_down[last.url]
    /\ last.prev.kind = "none" /\ ~last.is_ok
    /\ last.msgs = <<DownText(last.url)>> /\ last.delivered
    /\ ~site_status[last.url]

\* C14, as claimed: once the configuration is loaded, the process leaves the
\* loop only through an interrupt, and then with exit status 0.
C14_AsClaimed ==
    (pc = "exited" /\ config_loaded) => exit_status = "0"

\* The stored states before the last iteration: it writes at most the entry of
\* the url it processes.
StoredBefore == [site_status EXCEPT ![last.url] = last.stored]

LastKind == IF last.msgs = <<DownText(last.url)>> THEN "down" ELSE "up"

\* C16: within one process, a target is stored DOWN iff the most recent
\* delivered notification for it was a "down" message (UP if none was
\* delivered or the most recent one was "up"); a delivered notification is
\* never of the kind of the one delivered before it for the same target, and
\* the first one delivered is a "down" message.
C16_StoredIsLastDelivered ==
    /\ \A u \in DOMAIN site_status :
          /\ ~site_status[u] <=> delivered_kind[u] = "down"
          /\ site_status[u] <=> delivered_kind[u] \in {"none", "up"}
    /\ (last.kind = "fed" /\ last.delivered) =>
          /\ LastKind # last.delivered_before
          /\ last.delivered_before = "none" => LastKind = "down"
          /\ delivered_kind[last.url] = LastKind

\* An "up" message is delivered for a target whose most recent delivered
\* message was "down"; the target is stored UP again.
C16_Witness ==
    /\ last.kind = "fed" /\ last.delivered
    /\ last.delivered_before = "down"
    /\ last.msgs = <<UpText(last.url)>>
    /\ delivered_kind[last.url] = "up"
    /\ site_status[last.url]

\* C17: while the process runs its loop, a step changes the stored state of a
\* url only if it is the iteration that processes that url; the entries of all
\* other urls, and the set of entries, are left as they were, whatever the
\* probe and the send do.
C17_OnlyOwnEntryWritten ==
    [][(config_loaded /\ config_loaded') =>
          /\ DOMAIN site_status' = DOMAIN site_status
          /\ \A u \in DOMAIN site_status :
                site_status'[u] # site_status[u] =>
                    /\ pc = "loop" /\ idx <= Len(urls) /\ urls[idx] = u
                    /\ last'.kind = "fed" /\ last'.url = u /\ last'.delivered]_vars

\* The second of two targets has been processed and its "down" message
\* delivered while the first target was stored DOWN; the first still is.
C17_Witness ==
    /\ urls = <<"http://a.test", "http://b.test">>
    /\ last.kind = "fed" /\ last.url = "http://b.test"
    /\ last.stored /\ last.delivered /\ last.msgs = <<DownText("http://b.test")>>
    /\ delivered_kind["http://a.test"] = "down"
    /\ ~site_status["http://a.test"] /\ ~site_status["http://b.test"]
    /\ cycle = 2

\* ------------------------------------------------------- the loop that goes on
\* main() started with both credentials and a configuration that loads. The
\* process takes its next step whenever it has one: the checks of lines 156-163
\* run, each iteration of the for loop ends (the requests have a timeout of 5
\* seconds), and time.sleep returns after the interval. An interrupt may come
\* at any time or never.
InitLive ==
    /\ TELEGRAM_API_TOKEN = "secret"
    /\ TELEGRAM_CHAT_ID = "secret"
    /\ config_file \in {c \in ConfigFiles : c.file = "ok" /\ c.has_urls /\ c.urls # <<>>}
    /\ FirstRun
    /\ Started

\* main, lines 165-166: time.sleep returns and the next pass begins; the passes
\* are counted up to MaxCycles.
WakeUp ==
    /\ pc = "sleep"
    /\ pc' = "loop"
    /\ idx' = 1
    /\ cycle' = IF cycle < MaxCycles THEN cycle + 1 ELSE cycle
    /\ cycle_log' = <<>>
    /\ UNCHANGED <<env, exit_status, config_loaded, urls, interval, site_status,
                   net_calls, last, prev, settled, history, delivered_kind, still_down>>

NextLive ==
    \/ CheckCredentials
    \/ LoadConfig
    \/ ProcessTarget
    \/ Sleep
    \/ WakeUp
    \/ Interrupt

SpecLive ==
    /\ InitLive
    /\ [][NextLive]_vars
    /\ WF_vars(CheckCredentials)
    /\ WF_vars(LoadConfig)
    /\ WF_vars(ProcessTarget)
    /\ WF_vars(Sleep)
    /\ WF_vars(WakeUp)

\* The urls that occur in the configurations.
Targets == UNION {Range(us) : us \in UrlLists}

\* The most recent iteration for u fed the observation v to the notifier.
Observed(u, v) == u \in DOMAIN prev /\ prev[u].kind = "fed" /\ prev[u].is_ok = v

\* The iteration for u is the next step of the loop.
Turn(u) == pc = "loop" /\ idx <= Len(urls) /\ urls[idx] = u

\* The most recent iteration for u called send_to_telegram / had its message
\* delivered.
Attempted(u) == u \in DOMAIN prev /\ prev[u].sent
DeliveredFor(u) == u \in DOMAIN prev /\ prev[u].sent /\ ~prev[u].failed

\* u is stored as v, the most recent delivered message for u announces v, and
\* the most recent iteration for u sent nothing.
Converged(u, v) ==
    /\ u \in DOMAIN site_status /\ site_status[u] = v
    /\ delivered_kind[u] = (IF v THEN "up" ELSE "down")
    /\ ~prev[u].sent

\* C18: if a target is processed again and again, from some point on every
\* observation of it is v while v is not what is stored, and the sends for it
\* do not fail forever (if sends are attempted again and again, then again and
\* again one is delivered), then eventually the target is stored as v with the
\* message for v delivered, and from then on nothing more is sent for it.
C18_EventuallyDelivered ==
    \A u \in Targets, v \in BOOLEAN :
        ( /\ []<>Turn(u)
          /\ <>(u \in DOMAIN site_status /\ site_status[u] # v /\ []Observed(u, v))
          /\ ([]<>Attempted(u) => []<>DeliveredFor(u)) )
        => <>[]Converged(u, v)

\* A message that failed in the previous iteration for the target is sent
\* again for the same observation in a later pass, and is delivered: the
\* target is stored as observed.
C18_Witness ==
    /\ last.kind = "fed" /\ cycle >= 2
    /\ last.prev.kind = "fed" /\ last.prev.failed /\ last.prev.is_ok = last.is_ok
    /\ last.stored # last.is_ok
    /\ last.delivered
    /\ site_status[last.url] = last.is_ok
    /\ DeliveredFor(last.url)

====
